---------------------------- MODULE Spec2Model ----------------------------
(***************************************************************************)
(* Model of package matching (src/unnamed/part_000, lines 23-252): the     *)
(* Order record with its fill accounting, Order.Match, Order.Key and the   *)
(* two key comparators Comparator and StopComparator.                      *)
(*                                                                         *)
(* decimal.Decimal is an arbitrary-precision decimal: Add, Sub, Mul, Min   *)
(* and the comparisons are exact, so a decimal is modelled by an integer   *)
(* counting units of the smallest scale in use.  time.Time is modelled by  *)
(* an integer instant.  A decimal.NullDecimal is the record                *)
(* [Valid, Decimal]; the absent value is the Go zero value, whose Decimal  *)
(* is 0.  Order.Symbol, Order.MemberID and Order.ImmediateOrCancel are     *)
(* only copied or never read by the modelled functions and are left out,   *)
(* as is Trade.CreatedAt (time.Now()).                                     *)
(*                                                                         *)
(* log.Fatalf is logrus' Fatalf: it writes the entry and then exits the    *)
(* process, so the statement after it never runs.  The model records the   *)
(* exit in the variable halted; no operation runs once it is set.          *)
(***************************************************************************)
EXTENDS Integers, FiniteSets

VARIABLES
    orders,   \* the orders held in memory: order ID -> Order
    call,     \* the arguments of the latest Match call, as they were on entry
    trade,    \* what the latest Match call returned (NoTrade models nil)
    cmp,      \* the latest comparator call: function, operands and result
    halted    \* TRUE once log.Fatalf has ended the process

vars == <<orders, call, trade, cmp, halted>>

(* Bounds of the model. *)
NumOrders == 2
NumKeys == 3
MaxPrice == 2
MaxQty == 2
MaxTime == 2

IDs == 1..NumOrders
KeyIDs == 1..NumKeys

SideSell == "sell"
SideBuy == "buy"
Sides == {SideSell, SideBuy}

(* decimal.NullDecimal: the zero value (absent) and a present value. *)
NullZero == [Valid |-> FALSE, Decimal |-> 0]
Some(d) == [Valid |-> TRUE, Decimal |-> d]

NoTrade == [Nil |-> TRUE]
NoCall == [None |-> TRUE]
NoCmp == [None |-> TRUE]

(* type Order struct *)
Order(id, side, price, stop, qty, filled, created) ==
    [ID |-> id, Side |-> side, Price |-> price, StopPrice |-> stop,
     Quantity |-> qty, FilledQuantity |-> filled, CreatedAt |-> created]

(* func (o *Order) Key() *Key: StopPrice is not among the fields set, so the
   key carries the zero NullDecimal there. *)
Key(o) ==
    [ID |-> o.ID, Side |-> o.Side, Price |-> o.Price, StopPrice |-> NullZero,
     CreatedAt |-> o.CreatedAt]

(* func (o *Order) Filled() bool *)
Filled(o) == o.Quantity = o.FilledQuantity

(* Mutant of PendingQuantity: the filled quantity is not subtracted. *)
PendingQuantityIgnoresFilled(o) == o.Quantity

(* func (o *Order) PendingQuantity() decimal.Decimal *)
PendingQuantity(o) == o.Quantity - o.FilledQuantity

(* Mutant of Fill: the filled quantity is set, not added to. *)
FillTo(o, quantity) == [o EXCEPT !.FilledQuantity = quantity]

(* func (o *Order) Fill(quantity decimal.Decimal) *)
Fill(o, quantity) == [o EXCEPT !.FilledQuantity = @ + quantity]

(* func (o *Order) IsLimit() bool *)
IsLimit(o) == o.Price.Valid

(* func (o *Order) IsMarket() bool *)
IsMarket(o) == ~o.Price.Valid

(* Mutant of DecimalMin: the larger operand is returned. *)
DecimalMinPicksLarger(a, b) == IF a <= b THEN b ELSE a

(* decimal.Min of two decimals, as called by Match. *)
DecimalMin(a, b) == IF a <= b THEN a ELSE b

(* The bid and the ask of a maker/taker pair: switch maker.Side. *)
BidOrder(maker, taker) == IF maker.Side = SideBuy THEN maker ELSE taker
AskOrder(maker, taker) == IF maker.Side = SideBuy THEN taker ELSE maker

(* Mutant of SameSide: the side check is left out. *)
SameSideUnchecked(maker, taker) == FALSE

(* The guard of the Fatalf branch of Match. *)
SameSide(maker, taker) == maker.Side = taker.Side

(* Mutant of Crosses: equal prices do not cross. *)
CrossesStrictly(bidOrder, askOrder) ==
    bidOrder.Price.Decimal > askOrder.Price.Decimal

(* The price condition of the limit-taker case. *)
Crosses(bidOrder, askOrder) == bidOrder.Price.Decimal >= askOrder.Price.Decimal

(* filledQuantity := decimal.Min(bidOrder.PendingQuantity(), askOrder.PendingQuantity()) *)
FilledQuantityOf(maker, taker) ==
    DecimalMin(PendingQuantity(BidOrder(maker, taker)),
               PendingQuantity(AskOrder(maker, taker)))

(* Mutant of TradePrice: the taker's price is used. *)
TradePriceOfTaker(maker, taker) == taker.Price.Decimal

(* The price a trade is struck at: Price: maker.Price.Decimal. *)
TradePrice(maker, taker) == maker.Price.Decimal

(* &Trade{...} *)
NewTrade(maker, taker) ==
    LET filledQuantity == FilledQuantityOf(maker, taker)
        total == filledQuantity * TradePrice(maker, taker)
    IN  [Price |-> TradePrice(maker, taker), Quantity |-> filledQuantity,
         Total |-> total, MakerOrderID |-> maker.ID, TakerOrderID |-> taker.ID]

(* Mutant of Matches: the price condition is applied to market takers too. *)
MatchesOnlyIfCrossing(maker, taker) ==
    Crosses(BidOrder(maker, taker), AskOrder(maker, taker))

(* Whether Match reaches one of its two return &Trade{...} statements, given
   that the sides differ: a limit taker needs the prices to cross, a market
   taker does not. *)
Matches(maker, taker) ==
    IF IsLimit(taker)
    THEN Crosses(BidOrder(maker, taker), AskOrder(maker, taker))
    ELSE IsMarket(taker)

(* func (o *Order) Match(taker *Order) *Trade, maker and taker being the
   orders with IDs m and t.  Same side: log.Fatalf ends the process and
   nothing is returned.  Otherwise either a trade is returned and both
   orders are filled by its quantity, or nil is returned. *)
Match(m, t) ==
    LET maker == orders[m]
        taker == orders[t]
    IN  /\ ~halted
        /\ call' = [maker |-> maker, taker |-> taker]
        /\ cmp' = cmp
        /\ IF SameSide(maker, taker)
           THEN /\ halted' = TRUE
                /\ trade' = NoTrade
                /\ orders' = orders
           ELSE IF Matches(maker, taker)
           THEN LET tr == NewTrade(maker, taker)
                IN  /\ trade' = tr
                    /\ orders' = [orders EXCEPT ![m] = Fill(@, tr.Quantity),
                                                ![t] = Fill(@, tr.Quantity)]
                    /\ halted' = halted
           ELSE /\ trade' = NoTrade
                /\ orders' = orders
                /\ halted' = halted

(* Prices an order may carry: absent (a market order) or 1..MaxPrice. *)
Prices == {NullZero} \cup {Some(p) : p \in 1..MaxPrice}

(* Orders of every side, price and quantity, each with
   0 <= FilledQuantity <= Quantity; Match reads neither StopPrice nor
   CreatedAt. *)
Init ==
    /\ \E side \in [IDs -> Sides], price \in [IDs -> Prices],
          qty \in [IDs -> 1..MaxQty], filled \in [IDs -> 0..MaxQty] :
          /\ \A i \in IDs : filled[i] <= qty[i]
          /\ orders = [i \in IDs |->
                          Order(i, side[i], price[i], NullZero, qty[i], filled[i], 1)]
    /\ call = NoCall
    /\ trade = NoTrade
    /\ cmp = NoCmp
    /\ halted = FALSE

Next == \E m \in IDs, t \in IDs : Match(m, t)

Spec == Init /\ [][Next]_vars

(***************************************************************************)
(* The key comparators.                                                    *)
(***************************************************************************)

(* utils.UInt64Comparator of emirpasic/gods, as called by the comparators. *)
UInt64Comparator(a, b) == IF a > b THEN 1 ELSE IF a < b THEN -1 ELSE 0

(* Mutant of TimeThenID: equal creation times compare equal. *)
TimeThenIDNoTieBreak(this, that) ==
    IF this.CreatedAt < that.CreatedAt THEN 1
    ELSE IF this.CreatedAt > that.CreatedAt THEN -1
    ELSE 0

(* The default branch of both comparators: creation time, then ID. *)
TimeThenID(this, that) ==
    IF this.CreatedAt < that.CreatedAt THEN 1
    ELSE IF this.CreatedAt > that.CreatedAt THEN -1
    ELSE UInt64Comparator(this.ID, that.ID) * (-1)

(* Mutant of PriceThenTime: the sell side is not inverted. *)
PriceThenTimeUninverted(this, that) ==
    IF this.Price.Decimal < that.Price.Decimal THEN -1
    ELSE IF this.Price.Decimal > that.Price.Decimal THEN 1
    ELSE TimeThenID(this, that)

(* The outer switch of Comparator, on the two keys' Price.Decimal. *)
PriceThenTime(this, that) ==
    IF this.Side = SideSell /\ this.Price.Decimal < that.Price.Decimal THEN 1
    ELSE IF this.Side = SideSell /\ this.Price.Decimal > that.Price.Decimal THEN -1
    ELSE IF this.Side = SideBuy /\ this.Price.Decimal < that.Price.Decimal THEN -1
    ELSE IF this.Side = SideBuy /\ this.Price.Decimal > that.Price.Decimal THEN 1
    ELSE TimeThenID(this, that)

(* func Comparator(a, b interface{}) (result int), for keys of one side. *)
Comparator(this, that) ==
    IF this.ID = that.ID THEN 0 ELSE PriceThenTime(this, that)

(* func StopComparator(a, b interface{}) (result int), for keys of one side. *)
StopComparator(this, that) ==
    IF this.ID = that.ID THEN 0
    ELSE IF this.Side = SideSell /\ this.StopPrice.Decimal < that.StopPrice.Decimal THEN 1
    ELSE IF this.Side = SideSell /\ this.StopPrice.Decimal > that.StopPrice.Decimal THEN -1
    ELSE IF this.Side = SideBuy /\ this.StopPrice.Decimal < that.StopPrice.Decimal THEN -1
    ELSE IF this.Side = SideBuy /\ this.StopPrice.Decimal > that.StopPrice.Decimal THEN 1
    ELSE TimeThenID(this, that)

(* A call Comparator(orders[a].Key(), orders[b].Key()).  Keys of different
   sides: log.Fatalf ends the process and no result is returned. *)
Compare(a, b) ==
    LET this == Key(orders[a])
        that == Key(orders[b])
    IN  /\ ~halted
        /\ UNCHANGED <<orders, call, trade>>
        /\ IF this.Side # that.Side
           THEN /\ halted' = TRUE
                /\ cmp' = NoCmp
           ELSE /\ halted' = halted
                /\ cmp' = [fn |-> "Comparator", this |-> this, that |-> that,
                           result |-> Comparator(this, that)]

(* A call StopComparator(orders[a].Key(), orders[b].Key()). *)
StopCompare(a, b) ==
    LET this == Key(orders[a])
        that == Key(orders[b])
    IN  /\ ~halted
        /\ UNCHANGED <<orders, call, trade>>
        /\ IF this.Side # that.Side
           THEN /\ halted' = TRUE
                /\ cmp' = NoCmp
           ELSE /\ halted' = halted
                /\ cmp' = [fn |-> "StopComparator", this |-> this, that |-> that,
                           result |-> StopComparator(this, that)]

Times == 1..MaxTime

(* Resting limit orders of every side, price and creation time, compared by
   price. *)
InitCmp ==
    /\ \E side \in [KeyIDs -> Sides], price \in [KeyIDs -> 1..MaxPrice],
          created \in [KeyIDs -> Times] :
          orders = [i \in KeyIDs |->
                       Order(i, side[i], Some(price[i]), NullZero, 1, 0, created[i])]
    /\ call = NoCall
    /\ trade = NoTrade
    /\ cmp = NoCmp
    /\ halted = FALSE

NextCmp == \E a \in KeyIDs, b \in KeyIDs : Compare(a, b)

SpecCmp == InitCmp /\ [][NextCmp]_vars

(* Stop orders of every side, stop price and creation time, compared by
   stop price. *)
InitStop ==
    /\ \E side \in [KeyIDs -> Sides], stop \in [KeyIDs -> 1..MaxPrice],
          created \in [KeyIDs -> Times] :
          orders = [i \in KeyIDs |->
                       Order(i, side[i], Some(1), Some(stop[i]), 1, 0, created[i])]
    /\ call = NoCall
    /\ trade = NoTrade
    /\ cmp = NoCmp
    /\ halted = FALSE

NextStop == \E a \in KeyIDs, b \in KeyIDs : StopCompare(a, b)

SpecStop == InitStop /\ [][NextStop]_vars

(***************************************************************************)
(* Properties of Order.Match, checked under Spec.                          *)
(***************************************************************************)

(* The latest call's bid and ask as they were on entry, and quantities
   computed from the order fields alone. *)
CallBid == IF call.maker.Side = "buy" THEN call.maker ELSE call.taker
CallAsk == IF call.maker.Side = "buy" THEN call.taker ELSE call.maker
Pending(o) == o.Quantity - o.FilledQuantity
Smaller(x, y) == IF x < y THEN x ELSE y
MakerNow == orders[call.maker.ID]
TakerNow == orders[call.taker.ID]
OppositeSides == call # NoCall /\ call.maker.Side # call.taker.Side
Unfilled(os) == {i \in DOMAIN os : os[i].Quantity # os[i].FilledQuantity}

FilledWithinQuantity(os) ==
    \A i \in DOMAIN os :
        0 <= os[i].FilledQuantity /\ os[i].FilledQuantity <= os[i].Quantity

(* C1: from orders with 0 <= filled_quantity <= quantity, every Match call
   leaves every order with 0 <= filled_quantity <= quantity, and no order's
   filled_quantity decreases. *)
C1_FilledWithinQuantity ==
    [][FilledWithinQuantity(orders) =>
          /\ FilledWithinQuantity(orders')
          /\ \A i \in DOMAIN orders :
                 orders'[i].FilledQuantity >= orders[i].FilledQuantity]_vars

(* C1's case: a trade of positive quantity against a maker that was already
   partly filled fills the maker and leaves the taker partly filled. *)
C1_Witness ==
    /\ trade # NoTrade
    /\ trade.Quantity > 0
    /\ call.maker.FilledQuantity > 0
    /\ MakerNow.FilledQuantity = MakerNow.Quantity
    /\ TakerNow.FilledQuantity > 0
    /\ TakerNow.FilledQuantity < TakerNow.Quantity

(* C2: for a limit taker and an opposite-side limit maker, Match returns a
   trade exactly when bid.price >= ask.price; when it returns none, neither
   order's filled quantity has changed. *)
C2_LimitCrossing ==
    (OppositeSides /\ call.taker.Price.Valid /\ call.maker.Price.Valid) =>
        /\ (trade # NoTrade) <=> (CallBid.Price.Decimal >= CallAsk.Price.Decimal)
        /\ trade = NoTrade =>
              /\ MakerNow.FilledQuantity = call.maker.FilledQuantity
              /\ TakerNow.FilledQuantity = call.taker.FilledQuantity

(* C2's case: a limit taker whose price equals the resting limit order's
   price trades a positive quantity. *)
C2_Witness ==
    /\ OppositeSides
    /\ call.taker.Price.Valid /\ call.maker.Price.Valid
    /\ CallBid.Price.Decimal = CallAsk.Price.Decimal
    /\ trade # NoTrade
    /\ trade.Quantity > 0

(* C3: every trade Match returns has the maker's price, not the taker's where
   the two differ, and total = quantity * maker price. *)
C3_MakerPrice ==
    trade # NoTrade =>
        /\ trade.MakerOrderID = call.maker.ID
        /\ trade.TakerOrderID = call.taker.ID
        /\ trade.Price = call.maker.Price.Decimal
        /\ (call.taker.Price.Decimal # call.maker.Price.Decimal
               => trade.Price # call.taker.Price.Decimal)
        /\ trade.Total = trade.Quantity * call.maker.Price.Decimal

(* C3's case: a limit sell at 1 taken against a resting bid at 2, both with
   2 pending, trades 2 at 2 for a total of 4. *)
C3_Witness ==
    /\ trade # NoTrade
    /\ call.maker.Side = "buy"
    /\ call.maker.Price = Some(2)
    /\ call.taker.Price = Some(1)
    /\ trade.Price = 2
    /\ trade.Quantity = 2
    /\ trade.Total = 4

(* C4: a returned trade's quantity is min(bid pending, ask pending) as they
   were before the call, and the maker and the taker are each changed by
   exactly that increase of their filled quantity. *)
C4_TradeQuantity ==
    trade # NoTrade =>
        LET q == Smaller(Pending(CallBid), Pending(CallAsk))
        IN  /\ trade.Quantity = q
            /\ MakerNow = [call.maker EXCEPT !.FilledQuantity = @ + q]
            /\ TakerNow = [call.taker EXCEPT !.FilledQuantity = @ + q]

(* C4's case: a taker with 1 pending against an unfilled maker with 2
   pending trades 1 and leaves the maker filled by 1. *)
C4_Witness ==
    /\ trade # NoTrade
    /\ Pending(call.maker) = 2
    /\ call.maker.FilledQuantity = 0
    /\ Pending(call.taker) = 1
    /\ trade.Quantity = 1
    /\ MakerNow.FilledQuantity = 1
    /\ TakerNow.FilledQuantity = TakerNow.Quantity

(* C5: a market taker against an opposite-side limit maker always gets a
   trade, at the maker's price, for the smaller pending quantity, and is left
   with its prior pending quantity less the trade quantity. *)
C5_MarketTaker ==
    (OppositeSides /\ ~call.taker.Price.Valid /\ call.maker.Price.Valid) =>
        /\ trade # NoTrade
        /\ trade.Price = call.maker.Price.Decimal
        /\ trade.Quantity = Smaller(Pending(CallBid), Pending(CallAsk))
        /\ Pending(TakerNow) = Pending(call.taker) - trade.Quantity

(* C5's case: a market sell with 2 pending against a resting bid at 2 with 1
   pending trades 1 at 2 and keeps 1 pending. *)
C5_Witness ==
    /\ OppositeSides
    /\ ~call.taker.Price.Valid
    /\ call.taker.Side = "sell"
    /\ Pending(call.taker) = 2
    /\ call.maker.Price = Some(2)
    /\ Pending(call.maker) = 1
    /\ trade # NoTrade
    /\ trade.Price = 2
    /\ trade.Quantity = 1
    /\ Pending(TakerNow) = 1

(* C6: a Match call with maker and taker of one side returns no trade,
   changes no order and ends the process; nothing runs once it has ended. *)
C6_SameSideHalts ==
    [][/\ ~halted
       /\ call'.maker.Side = call'.taker.Side =>
             /\ trade' = NoTrade
             /\ orders' = orders
             /\ halted']_vars

(* C6's case: two distinct orders of one side, both with pending quantity,
   were handed to Match and the process has ended without a trade. *)
C6_Witness ==
    /\ call # NoCall
    /\ call.maker.Side = call.taker.Side
    /\ call.maker.ID # call.taker.ID
    /\ Pending(call.maker) > 0 /\ Pending(call.taker) > 0
    /\ halted
    /\ trade = NoTrade

(* C10: after a call that returned a trade, the maker or the taker is
   filled; if both had pending quantity before the call, the trade's quantity
   is positive and fewer orders are unfilled than before. *)
C10_TradeFillsOne ==
    [][(FilledWithinQuantity(orders) /\ trade' # NoTrade) =>
          LET m == trade'.MakerOrderID
              t == trade'.TakerOrderID
          IN  /\ \/ orders'[m].Quantity = orders'[m].FilledQuantity
                 \/ orders'[t].Quantity = orders'[t].FilledQuantity
              /\ (Pending(orders[m]) > 0 /\ Pending(orders[t]) > 0) =>
                    /\ trade'.Quantity > 0
                    /\ Cardinality(Unfilled(orders')) < Cardinality(Unfilled(orders))]_vars

(* C10's case: both orders had pending quantity, the trade filled the maker
   and left the taker unfilled. *)
C10_Witness ==
    /\ trade # NoTrade
    /\ Pending(call.maker) > 0 /\ Pending(call.taker) > 0
    /\ trade.Quantity > 0
    /\ MakerNow.Quantity = MakerNow.FilledQuantity
    /\ TakerNow.Quantity # TakerNow.FilledQuantity

(***************************************************************************)
(* Properties of Comparator, checked under SpecCmp.                        *)
(***************************************************************************)

KeyOf(i) == Key(orders[i])
OneSide(S) == \A x, y \in S : orders[x].Side = orders[y].Side

(* C7: on same-side keys with unique IDs, the result of Comparator(a, b) is
   -1, 0 or 1, is 0 only when a.ID = b.ID, is -Comparator(b, a), and with any
   third key c of that side, a > b and b > c imply a > c. *)
C7_StrictTotalOrder ==
    cmp # NoCmp =>
        LET a == cmp.this
            b == cmp.that
            ab == cmp.result
        IN  /\ ab \in {-1, 0, 1}
            /\ ab = 0 => a.ID = b.ID
            /\ ab = 0 - Comparator(b, a)
            /\ \A i \in KeyIDs :
                   LET c == KeyOf(i)
                   IN  (c.Side = a.Side /\ ab > 0 /\ Comparator(b, c) > 0)
                           => Comparator(a, c) > 0

(* C7's case: three keys of one side and one price, a ahead of b by creation
   time and b ahead of c by ID alone, and Comparator(a, c) returned 1. *)
C7_Witness ==
    \E a, b, c \in KeyIDs :
        /\ OneSide({a, b, c})
        /\ orders[a].Price = orders[b].Price /\ orders[b].Price = orders[c].Price
        /\ orders[a].CreatedAt < orders[b].CreatedAt
        /\ orders[b].CreatedAt = orders[c].CreatedAt
        /\ b < c
        /\ cmp # NoCmp
        /\ cmp.fn = "Comparator"
        /\ cmp.this = KeyOf(a) /\ cmp.that = KeyOf(c)
        /\ cmp.result = 1

(* m is a maximum of the keys S under Comparator. *)
IsMax(m, S) == \A x \in S : Comparator(KeyOf(m), KeyOf(x)) >= 0

(* m has the best price of S for its side, the earliest creation time among
   the keys of that price, and the lowest ID among those of that price and
   time. *)
IsBest(m, S) ==
    \A x \in S :
        LET pm == orders[m].Price.Decimal
            px == orders[x].Price.Decimal
        IN  /\ orders[m].Side = "sell" => pm <= px
            /\ orders[m].Side = "buy" => pm >= px
            /\ pm = px => orders[m].CreatedAt <= orders[x].CreatedAt
            /\ (pm = px /\ orders[m].CreatedAt = orders[x].CreatedAt) => m <= x

(* C8: every set of same-side keys holding the two keys just compared has a
   maximum under Comparator; if the first of them is that maximum, it is the
   best-priced key of the set (lowest for sell, highest for buy), the
   earliest created among equal prices, the lowest ID among equal prices and
   times. *)
C8_MaxIsBest ==
    cmp # NoCmp =>
        \A S \in SUBSET KeyIDs :
            (cmp.this.ID \in S /\ cmp.that.ID \in S /\ OneSide(S)) =>
                /\ \E m \in S : IsMax(m, S)
                /\ (cmp.result >= 0 /\ IsMax(cmp.this.ID, S))
                      => IsBest(cmp.this.ID, S)

(* C8's case: a bid at 2 created at 2 was compared with a bid at 1 created at
   1 and ranked above it, with a third bid resting beside them. *)
C8_Witness ==
    /\ cmp # NoCmp
    /\ cmp.fn = "Comparator"
    /\ cmp.this.Side = "buy"
    /\ cmp.this.Price = Some(2) /\ cmp.this.CreatedAt = 2
    /\ cmp.that.Price = Some(1) /\ cmp.that.CreatedAt = 1
    /\ cmp.result = 1
    /\ OneSide(KeyIDs)

(***************************************************************************)
(* Property of Order.Key and StopComparator, checked under SpecStop.       *)
(***************************************************************************)

(* C9: StopComparator, applied to the keys Order.Key derives from two
   same-side stop orders with different stop prices, ranks them by the
   orders' stop prices (the key carrying the stop price is what the
   comparator reads): the lower ranks higher on the sell side, the higher on
   the buy side. *)
C9_StopKeyRanksByStopPrice ==
    (cmp # NoCmp /\ cmp.fn = "StopComparator"
         /\ orders[cmp.this.ID].StopPrice # orders[cmp.that.ID].StopPrice) =>
        LET a == orders[cmp.this.ID]
            b == orders[cmp.that.ID]
            lower == a.StopPrice.Decimal < b.StopPrice.Decimal
        IN  /\ a.Side = "sell" => cmp.result = (IF lower THEN 1 ELSE -1)
            /\ a.Side = "buy" => cmp.result = (IF lower THEN -1 ELSE 1)

=============================================================================
